---- MODULE Spec2Model ----
(***************************************************************************)
(* A model of the SPICE streaming agent (src/src/spice-streaming-agent.cpp) *)
(* as a state machine: the main task (supervisor, capture loop, control    *)
(* reader), the detached cursor updater task, the host at the other end of *)
(* the stream device, and signal delivery.                                 *)
(*                                                                         *)
(* The stream device is two byte streams: `inbound` (host to agent) and    *)
(* `wire` (agent to host).  `wire` keeps every write() call as one chunk   *)
(* tagged with the task and the message it belongs to, so that interleaving*)
(* of messages is observable.                                              *)
(***************************************************************************)
EXTENDS Integers, Sequences, FiniteSets, TLC

(***************************************************************************)
(* Bounds of the model.                                                    *)
(***************************************************************************)
\* events in a run: messages the host sends, frames the capture providers
\* deliver and cursor changes, taken together
MaxEvents == 4
\* messages the host has sent that the agent has not begun to read
MaxPending == 1
\* the same two bounds where only the main task and the host run
MaxDrainEvents == 5
MaxQueued == 2

(***************************************************************************)
(* Protocol constants (spice/stream-device.h, spice/enums.h).              *)
(***************************************************************************)
STREAM_DEVICE_PROTOCOL == 1
STREAM_TYPE_CAPABILITIES == 1
STREAM_TYPE_FORMAT == 2
STREAM_TYPE_DATA == 3
STREAM_TYPE_START_STOP == 4
STREAM_TYPE_NOTIFY_ERROR == 5
STREAM_TYPE_CURSOR_SET == 6
STREAM_MSG_CAPABILITIES_MAX_BYTES == 1024
SPICE_VIDEO_CODEC_TYPE_MJPEG == 1
\* sizeof(StreamDevHeader)
HdrSize == 8
\* sizeof(uint8_t msg[256]) in handle_stream_start_stop
StartStopBufSize == 256
\* sizeof(StreamMsgNotifyError): the uint32_t error_code
NotifyErrorPrefix == 4
\* sizeof(StreamMsgNotifyError1K): error_code plus uint8_t msg[1024]
NotifyError1KSize == 1028
EXIT_SUCCESS == 0
EXIT_FAILURE == 1

Min(a, b) == IF a < b THEN a ELSE b

(***************************************************************************)
(* Wire codec: little-endian fields of StreamDevHeader.                    *)
(***************************************************************************)
LE32(n) == << n % 256, (n \div 256) % 256, (n \div 65536) % 256,
              (n \div 16777216) % 256 >>

FromLE32(b) == b[1] + 256 * b[2] + 65536 * b[3] + 16777216 * b[4]

\* StreamDevHeader { protocol_version, padding, type (u16), size (u32) }
EncodeHeader(ver, type, size) ==
    << ver, 0, type % 256, (type \div 256) % 256 >> \o LE32(size)

DecodeHeader(b) ==
    [ protocol_version |-> b[1],
      type |-> b[3] + 256 * b[4],
      size |-> FromLE32(SubSeq(b, 5, 8)) ]

\* StreamMsgFormat { width (u32), height (u32), codec (u8), padding[3] },
\* zeroed by memset
EncodeFormat(w, h, c) ==
    EncodeHeader(STREAM_DEVICE_PROTOCOL, STREAM_TYPE_FORMAT, 12)
    \o LE32(w) \o LE32(h) \o << c % 256, 0, 0, 0 >>

\* SpiceStreamDataMessage: the header alone (StreamMsgData is empty)
EncodeDataHeader(size) ==
    EncodeHeader(STREAM_DEVICE_PROTOCOL, STREAM_TYPE_DATA, size)

Zeros(n) == [i \in 1..n |-> 0]

(***************************************************************************)
(* State.                                                                  *)
(***************************************************************************)
VARIABLES
    \* session state (file-scope statics)
    streaming_requested, quit_requested, client_codecs,
    \* signal dispositions installed by register_interrupts, whether a
    \* sigaction call it made failed, and whether handle_interrupt has run
    handlers, sigaction_failed, signalled,
    \* the process: "running", "exited" (main returned exit_code) or "killed"
    \* (default action of an unhandled signal)
    proc, exit_code,
    \* main task: position, read_command's `blocking` argument, the header
    \* being handled, the FrameInfo being sent, the exception that escaped
    pc, blocking, hdr, frame, err,
    \* do_capture locals: the capture provider (its codec, 0: none), whether
    \* it has delivered no frame yet, and frame_count
    capture, capture_fresh, frame_count,
    \* StreamPort: the mutex owner and the two byte streams
    mutex, inbound, wire,
    \* cursor updater task: position and number of cursor events seen
    cpc, cursor_count,
    \* the host: body bytes of the message it is still delivering, number of
    \* messages sent, whether it has sent a protocol-violating message
    host_pending, host_sent, host_done,
    \* observations: bytes consumed from the device, the state at entry to
    \* read_command_from_device, the number of messages handled so far, and
    \* whether a Data write error has happened with no message handled since
    rd_total, snap, handled, werr_pending,
    \* the Data messages sent and the control messages handled since a
    \* StartStop with num_codecs 0 has been waiting at the device of a
    \* capturing agent (NoStop: none is waiting)
    after_stop,
    \* what the environment may still do: the bounds of the run
    limits

vars == << streaming_requested, quit_requested, client_codecs, handlers,
           sigaction_failed, signalled, proc, exit_code, pc, blocking, hdr, frame, err,
           capture, capture_fresh, frame_count, mutex, inbound, wire, cpc,
           cursor_count, host_pending, host_sent, host_done, rd_total, snap,
           handled, werr_pending, after_stop, limits >>

statics == << streaming_requested, client_codecs, quit_requested >>
sessionVars == << streaming_requested, client_codecs >>
\* the rest of the process's state: gone when the process ends
internalVars == << handlers, sigaction_failed, blocking, hdr, frame, capture,
                   capture_fresh, frame_count, mutex, cpc, cursor_count, snap,
                   werr_pending, after_stop >>
\* the device, the host and what has been observed of the device
outsideVars == << inbound, wire, host_pending, host_sent, host_done, rd_total,
                  handled, signalled, limits >>
sigVars == << handlers, sigaction_failed >>
procVars == << proc, exit_code >>
captureVars == << capture, capture_fresh, frame_count, frame >>
cursorVars == << cpc, cursor_count >>
hostVars == << host_pending, host_sent, host_done, limits >>
obsVars == << rd_total, snap, handled, werr_pending, signalled, after_stop >>

NoHdr == [protocol_version |-> 0, type |-> 0, size |-> 0]
NoFrame == [stream_start |-> FALSE, buffer_size |-> 0, n |-> 0]
NoSnap == [rd |-> 0, streaming |-> FALSE, codecs |-> {}, sent |-> 0]
NoStop == [data |-> -1, msgs |-> 0]

Signals == {"SIGINT", "SIGTERM"}

Running == proc = "running"

\* the events of the run so far
Events == host_sent + frame_count + cursor_count

Start(l) ==
    /\ streaming_requested = FALSE
    /\ quit_requested = FALSE
    /\ client_codecs = {}
    /\ handlers = {}
    /\ sigaction_failed = FALSE
    /\ signalled = FALSE
    /\ proc = "running"
    /\ exit_code = -1
    /\ pc = "start"
    /\ blocking = FALSE
    /\ hdr = NoHdr
    /\ frame = NoFrame
    /\ err = "none"
    /\ capture = 0
    /\ capture_fresh = FALSE
    /\ frame_count = 0
    /\ mutex = "free"
    /\ inbound = << >>
    /\ wire = << >>
    /\ cpc = "off"
    /\ cursor_count = 0
    /\ host_pending = << >>
    /\ host_sent = 0
    /\ host_done = FALSE
    /\ rd_total = 0
    /\ snap = NoSnap
    /\ handled = 0
    /\ werr_pending = FALSE
    /\ after_stop = NoStop
    /\ limits = l

\* the state at entry to main
Init == Start([events |-> MaxEvents, pending |-> MaxPending])

\* the same state with the bounds of the runs of main task and host alone
DrainInit == Start([events |-> MaxDrainEvents, pending |-> MaxQueued])

(***************************************************************************)
(* The host.  It sends messages of a fixed menu, whole or header first      *)
(* and body later, and nothing after a message that violates the protocol  *)
(* (the bytes that trail such a message are part of it).                   *)
(***************************************************************************)
Msg(h, b) == [hdr |-> h, body |-> b]

CapsMsg ==
    Msg(EncodeHeader(1, STREAM_TYPE_CAPABILITIES, 4), << 222, 173, 190, 239 >>)
\* accepts codecs 1 and 3: 1 is listed twice, and a spare byte follows the list
StartMsg ==
    Msg(EncodeHeader(1, STREAM_TYPE_START_STOP, 5), << 3, 1, 3, 1, 7 >>)
StopMsg == Msg(EncodeHeader(1, STREAM_TYPE_START_STOP, 1), << 0 >>)
NotifyMsg ==
    Msg(EncodeHeader(1, STREAM_TYPE_NOTIFY_ERROR, 5), << 9, 0, 0, 0, 65 >>)

GoodMsgs == { CapsMsg, StartMsg, StopMsg, NotifyMsg }

\* each is followed by bytes a reader that went on would take as a StartStop
Trail == StartMsg.hdr \o StartMsg.body
BadVersionMsg == Msg(EncodeHeader(2, STREAM_TYPE_START_STOP, 3), << 2, 1, 3 >>)
UnknownTypeMsg == Msg(EncodeHeader(1, 153, 0), Trail)
BadStartStopMsg ==
    Msg(EncodeHeader(1, STREAM_TYPE_START_STOP, 2), << 2, 1 >> \o Trail)
EmptyStartStopMsg == Msg(EncodeHeader(1, STREAM_TYPE_START_STOP, 0), Trail)
LongStartStopMsg ==
    Msg(EncodeHeader(1, STREAM_TYPE_START_STOP, StartStopBufSize), Trail)
LongCapsMsg ==
    Msg(EncodeHeader(1, STREAM_TYPE_CAPABILITIES,
                     STREAM_MSG_CAPABILITIES_MAX_BYTES + 1), Trail)
ShortNotifyMsg ==
    Msg(EncodeHeader(1, STREAM_TYPE_NOTIFY_ERROR, NotifyErrorPrefix - 1),
        << 9, 0, 0 >> \o Trail)
LongNotifyMsg ==
    Msg(EncodeHeader(1, STREAM_TYPE_NOTIFY_ERROR, NotifyError1KSize + 1),
        Zeros(NotifyError1KSize + 1) \o Trail)

\* the longest NotifyError the protocol allows: error_code and 1024 bytes
MaxNotifyMsg ==
    Msg(EncodeHeader(1, STREAM_TYPE_NOTIFY_ERROR, NotifyError1KSize),
        Zeros(NotifyError1KSize) \o Trail)

BadMsgs == { BadVersionMsg, UnknownTypeMsg, BadStartStopMsg, EmptyStartStopMsg,
             LongStartStopMsg, LongCapsMsg, ShortNotifyMsg, LongNotifyMsg,
             MaxNotifyMsg }

\* messages sent of which the agent has read nothing yet
Pending == host_sent - handled - (IF hdr # NoHdr THEN 1 ELSE 0)

\* a message arrives, whole or (a well-formed one) its header first, once the
\* agent has opened the device
HostSend ==
    /\ Running
    /\ pc \notin {"start", "init"}
    /\ Events < limits.events
    /\ Pending < limits.pending
    /\ ~host_done
    /\ host_pending = << >>
    /\ \E m \in GoodMsgs \cup BadMsgs, whole \in BOOLEAN :
         /\ whole \/ m \in GoodMsgs
         /\ inbound' = IF whole THEN inbound \o m.hdr \o m.body
                                ELSE inbound \o m.hdr
         /\ host_pending' = IF whole THEN << >> ELSE m.body
         /\ host_done' = (m \in BadMsgs)
         /\ after_stop' = IF whole /\ m = StopMsg /\ capture # 0
                             /\ after_stop = NoStop
                          THEN [data |-> 0, msgs |-> 0] ELSE after_stop
    /\ host_sent' = host_sent + 1
    /\ UNCHANGED << sessionVars, quit_requested, sigVars, procVars, pc, blocking,
                    hdr, err, captureVars, mutex, wire, cursorVars, rd_total,
                    snap, handled, werr_pending, signalled, limits >>

HostFlush ==
    /\ Running
    /\ host_pending # << >>
    /\ inbound' = inbound \o host_pending
    /\ host_pending' = << >>
    /\ after_stop' = IF host_pending = StopMsg.body /\ capture # 0
                        /\ after_stop = NoStop
                     THEN [data |-> 0, msgs |-> 0] ELSE after_stop
    /\ UNCHANGED << sessionVars, quit_requested, sigVars, procVars, pc, blocking,
                    hdr, err, captureVars, mutex, wire, cursorVars, host_sent,
                    host_done, rd_total, snap, handled, werr_pending, signalled,
                    limits >>

(***************************************************************************)
(* Signals.                                                                *)
(***************************************************************************)
\* register_interrupts: the second sigaction is called only when the first
\* one failed (&&); the outcome of each call made is an input
register_interrupts(ok_int, ok_term) ==
    IF ok_int THEN {"SIGINT"}
    ELSE IF ok_term THEN {"SIGTERM"} ELSE {}

\* what a sigaction call of register_interrupts can return: its arguments are
\* valid, so it succeeds
SigactionOk == {TRUE}

RegisterInterrupts ==
    /\ Running
    /\ pc = "start"
    /\ \E ok_int \in SigactionOk, ok_term \in SigactionOk :
         /\ handlers' = register_interrupts(ok_int, ok_term)
         /\ sigaction_failed' = ~ok_int
    /\ pc' = "init"
    /\ UNCHANGED << sessionVars, quit_requested, procVars, blocking, hdr, err,
                    captureVars, mutex, inbound, wire, cursorVars, hostVars,
                    obsVars >>

\* a handler that flips the flag instead of setting it
handle_interruptToggle(q) == ~q

\* handle_interrupt: quit_requested = true
handle_interrupt(q) == TRUE

\* The process ends: main returned `code` (p = "exited") or a signal's default
\* action terminated it (p = "killed").  Its threads and its memory are gone;
\* the session statics are kept as they were at that moment.
Terminate(p, code, e, at) ==
    /\ proc' = p
    /\ exit_code' = code
    /\ err' = e
    /\ pc' = at
    /\ handlers' = {}
    /\ sigaction_failed' = FALSE
    /\ blocking' = FALSE
    /\ hdr' = NoHdr
    /\ frame' = NoFrame
    /\ capture' = 0
    /\ capture_fresh' = FALSE
    /\ frame_count' = 0
    /\ mutex' = "free"
    /\ cpc' = "off"
    /\ cursor_count' = 0
    /\ snap' = NoSnap
    /\ werr_pending' = FALSE
    /\ after_stop' = NoStop

\* Delivery of signal s.  With a handler installed, handle_interrupt runs; if
\* it runs on the main task while that task is blocked in poll(), poll fails
\* with EINTR, have_something_to_read returns false and read_command sleeps.
\* Without a handler the default action terminates the process.
Signal ==
    /\ Running
    /\ \E s \in Signals, on_main \in BOOLEAN :
         /\ on_main \/ cpc # "off"
         /\ IF s \in handlers
            THEN /\ quit_requested' = handle_interrupt(quit_requested)
                 /\ signalled' = TRUE
                 /\ pc' = IF on_main /\ pc = "poll_wait" THEN "sleep" ELSE pc
                 /\ UNCHANGED << procVars, err, internalVars >>
            ELSE /\ Terminate("killed", -1, err, "killed")
                 /\ UNCHANGED << quit_requested, signalled >>
    /\ UNCHANGED << sessionVars, inbound, wire, hostVars, rd_total, handled >>

(***************************************************************************)
(* Exceptions.  An exception that leaves do_capture unwinds the main task:  *)
(* the lock_guard releases the mutex, the capture provider is destroyed,    *)
(* and main's catch clause is entered.                                     *)
(***************************************************************************)
\* An exception that escapes do_capture (or the start of main's try block)
\* unwinds the main task into main's catch clause, which logs it and returns
\* EXIT_FAILURE.
\* main's catch block returning EXIT_SUCCESS
ThrowExitsZero(e) == Terminate("exited", EXIT_SUCCESS, e, "catch")

Throw(e) == Terminate("exited", EXIT_FAILURE, e, "catch")


(***************************************************************************)
(* main(): the supervisor.                                                 *)
(***************************************************************************)
\* the try block up to the call of do_capture: plugins, FrameLog, StreamPort,
\* and the detached cursor updater thread
Startup ==
    /\ Running
    /\ pc = "init"
    /\ \/ /\ pc' = "outer"
          /\ cpc' = "wait"
          /\ UNCHANGED << procVars, err, handlers, sigaction_failed, blocking,
                          hdr, frame, capture, capture_fresh, frame_count,
                          mutex, cursor_count, snap, werr_pending, after_stop >>
       \/ Throw("startup failed")
    /\ UNCHANGED << statics, outsideVars >>



(***************************************************************************)
(* StreamPort primitives on the two byte streams.                          *)
(***************************************************************************)
\* one write() call of task `by`: bytes of its message (kind, n); part says
\* whether they are the message's header, its body, or the whole message
Chunk(by, kind, n, part, bytes) ==
    [by |-> by, kind |-> kind, n |-> n, part |-> part, bytes |-> bytes]

MainChunks(w) == SelectSeq(w, LAMBDA c : c.by = "main")

\* stream_port.read(buf, n) blocks until n bytes have arrived
CanRead(n) == Len(inbound) >= n

Rest(n) == SubSeq(inbound, n + 1, Len(inbound))

(***************************************************************************)
(* Plugin registry (ConcreteAgent).  The built-in MJPEG plugin is always   *)
(* registered; one loaded plugin stands for the plugins directory.         *)
(***************************************************************************)
Plugins == << [codec |-> SPICE_VIDEO_CODEC_TYPE_MJPEG, rank |-> 1] >>

\* the codec of the best plugin for `codecs` among the plugins `ok` whose
\* CreateCapture succeeds; 0 when there is none
GetBestFrameCapture(codecs, ok) ==
    LET cand == { i \in ok : Plugins[i].codec \in codecs }
        best == { i \in cand : \A j \in cand :
                     \/ Plugins[j].rank < Plugins[i].rank
                     \/ (Plugins[j].rank = Plugins[i].rank /\ i <= j) }
    IN IF cand = {} THEN 0 ELSE Plugins[CHOOSE i \in best : TRUE].codec

\* FrameInfo.buffer_size of the frames the providers deliver
BufSizes == {2}

(***************************************************************************)
(* do_capture.                                                             *)
(***************************************************************************)
\* where read_command returns to: the idle loop (blocking) or the streaming
\* loop (non-blocking); `blocking` is FALSE outside read_command(.., true)
RcReturn == IF blocking THEN "idle" ELSE "stream"

\* do_capture returns to main, which returns EXIT_SUCCESS
Return == Terminate("exited", EXIT_SUCCESS, err, "return")

\* while (!quit_requested)  -- the outer loop
CaptureLoop ==
    /\ Running
    /\ pc = "outer"
    /\ IF quit_requested
       THEN Return
       ELSE pc' = "idle" /\ UNCHANGED << procVars, err, internalVars >>
    /\ UNCHANGED << statics, outsideVars >>

\* while (!quit_requested && !streaming_requested) read_command(.., true)
IdleLoop ==
    /\ Running
    /\ pc = "idle"
    /\ IF ~quit_requested /\ ~streaming_requested
       THEN pc' = "rc_loop" /\ blocking' = TRUE
       ELSE pc' = "idle_done" /\ UNCHANGED blocking
    /\ UNCHANGED << sessionVars, quit_requested, sigVars, procVars, hdr, err,
                    captureVars, mutex, inbound, wire, cursorVars, hostVars,
                    obsVars >>

\* if (quit_requested) return
IdleDone ==
    /\ Running
    /\ pc = "idle_done"
    /\ IF quit_requested
       THEN Return
       ELSE pc' = "get_capture" /\ UNCHANGED << procVars, err, internalVars >>
    /\ UNCHANGED << statics, outsideVars >>

\* capture(agent.GetBestFrameCapture(client_codecs)); null throws
GetCapture ==
    /\ Running
    /\ pc = "get_capture"
    /\ \E ok \in SUBSET (1..Len(Plugins)) :
         LET c == GetBestFrameCapture(client_codecs, ok)
         IN IF c = 0
            THEN Throw("cannot find a suitable capture system")
            ELSE /\ capture' = c
                 /\ capture_fresh' = TRUE
                 /\ pc' = "stream"
                 /\ UNCHANGED << procVars, err, handlers, sigaction_failed,
                                 blocking, hdr, frame, frame_count, mutex, cpc,
                                 cursor_count, snap, werr_pending, after_stop >>
    /\ UNCHANGED << statics, outsideVars >>

\* the streaming loop with a provider that outlives the outer iteration
StreamLoopKeeps ==
    /\ Running
    /\ pc = "stream"
    /\ pc' = IF ~quit_requested /\ streaming_requested
             THEN "capture_frame" ELSE "outer"
    /\ UNCHANGED << sessionVars, quit_requested, sigVars, procVars, blocking, hdr,
                    err, captureVars, mutex, inbound, wire, cursorVars,
                    hostVars, obsVars >>

\* while (!quit_requested && streaming_requested); leaving the loop ends the
\* outer iteration, which destroys the capture provider
StreamLoop ==
    /\ Running
    /\ pc = "stream"
    /\ IF ~quit_requested /\ streaming_requested
       THEN pc' = "capture_frame" /\ UNCHANGED << capture, capture_fresh >>
       ELSE pc' = "outer" /\ capture' = 0 /\ capture_fresh' = FALSE
    /\ UNCHANGED << sessionVars, quit_requested, sigVars, procVars, blocking, hdr,
                    err, frame, frame_count, mutex, inbound, wire, cursorVars,
                    hostVars, obsVars >>

\* do_capture without its `if (frame.stream_start)` block: no frame is
\* announced by a Format message
CaptureFrameNoFormat ==
    /\ Running
    /\ pc = "capture_frame"
    /\ Events < limits.events
    /\ \E ss \in (IF capture_fresh THEN {TRUE} ELSE BOOLEAN), sz \in BufSizes :
         frame' = [stream_start |-> ss, buffer_size |-> sz,
                   n |-> frame_count + 1]
    /\ pc' = "frame_lock"
    /\ frame_count' = frame_count + 1
    /\ capture_fresh' = FALSE
    /\ UNCHANGED << sessionVars, quit_requested, sigVars, procVars, blocking, hdr,
                    err, capture, mutex, inbound, wire, cursorVars, hostVars,
                    obsVars >>

\* ++frame_count; FrameInfo frame = capture->CaptureFrame().  The first frame of
\* a provider starts a stream; a later one may (a format change).
CaptureFrame ==
    /\ Running
    /\ pc = "capture_frame"
    /\ Events < limits.events
    /\ \E ss \in (IF capture_fresh THEN {TRUE} ELSE BOOLEAN), sz \in BufSizes :
         /\ frame' = [stream_start |-> ss, buffer_size |-> sz,
                      n |-> frame_count + 1]
         /\ pc' = IF ss THEN "format_lock" ELSE "frame_lock"
    /\ frame_count' = frame_count + 1
    /\ capture_fresh' = FALSE
    /\ UNCHANGED << sessionVars, quit_requested, sigVars, procVars, blocking, hdr,
                    err, capture, mutex, inbound, wire, cursorVars, hostVars,
                    obsVars >>

\* CaptureFrame throws: nothing in do_capture catches it
CaptureError ==
    /\ Running
    /\ pc = "capture_frame"
    /\ Throw("capture failed")
    /\ UNCHANGED << statics, outsideVars >>

\* FrameInfo.size of the frames the providers deliver
FrameSize == [width |-> 640, height |-> 480]

\* the encoded picture of frame n
FrameBuffer(f) == [i \in 1..f.buffer_size |-> f.n]

\* spice_stream_send_format: std::lock_guard guard(stream_port.mutex)
FormatLock ==
    /\ Running
    /\ pc = "format_lock"
    /\ mutex = "free"
    /\ mutex' = "main"
    /\ pc' = "format_write"
    /\ UNCHANGED << sessionVars, quit_requested, sigVars, procVars, blocking, hdr,
                    err, captureVars, inbound, wire, cursorVars, hostVars,
                    obsVars >>

\* spice_stream_send_format: stream_port.write(&msg, msgsize), end of scope
FormatWrite ==
    /\ Running
    /\ pc = "format_write"
    /\ wire' = Append(wire, Chunk("main", "format", frame.n, "message",
                 EncodeFormat(FrameSize.width, FrameSize.height, capture)))
    /\ mutex' = "free"
    /\ pc' = "frame_lock"
    /\ UNCHANGED << sessionVars, quit_requested, sigVars, procVars, blocking, hdr,
                    err, captureVars, inbound, cursorVars, hostVars, obsVars >>

\* the write in spice_stream_send_format throws WriteError: the call is
\* outside do_capture's try block
FormatWriteError ==
    /\ Running
    /\ pc = "format_write"
    /\ Throw("WriteError")
    /\ UNCHANGED << statics, outsideVars >>

\* spice_stream_send_frame: std::lock_guard guard(stream_port.mutex)
FrameLock ==
    /\ Running
    /\ pc = "frame_lock"
    /\ mutex = "free"
    /\ mutex' = "main"
    /\ pc' = "frame_hdr"
    /\ UNCHANGED << sessionVars, quit_requested, sigVars, procVars, blocking, hdr,
                    err, captureVars, inbound, wire, cursorVars, hostVars,
                    obsVars >>

\* spice_stream_send_frame with the lock dropped between the two writes:
\* the header write that C1 rules out
FrameWriteHeaderUnlocked ==
    /\ Running
    /\ pc = "frame_hdr"
    /\ wire' = Append(wire, Chunk("main", "data", frame.n, "header",
                              EncodeDataHeader(frame.buffer_size)))
    /\ mutex' = "free"
    /\ pc' = "frame_body"
    /\ UNCHANGED << sessionVars, quit_requested, sigVars, procVars, blocking, hdr,
                    err, captureVars, inbound, cursorVars, hostVars, obsVars >>

\* spice_stream_send_frame: stream_port.write(&msg, msgsize)
FrameWriteHeader ==
    /\ Running
    /\ pc = "frame_hdr"
    /\ wire' = Append(wire, Chunk("main", "data", frame.n, "header",
                              EncodeDataHeader(frame.buffer_size)))
    /\ pc' = "frame_body"
    /\ UNCHANGED << sessionVars, quit_requested, sigVars, procVars, blocking, hdr,
                    err, captureVars, mutex, inbound, cursorVars, hostVars,
                    obsVars >>

\* spice_stream_send_frame: stream_port.write(buf, size), end of scope; then
\* do_capture calls read_command(stream_port, false)
FrameWriteBody ==
    /\ Running
    /\ pc = "frame_body"
    /\ wire' = Append(wire, Chunk("main", "data", frame.n, "body",
                              FrameBuffer(frame)))
    /\ mutex' = "free"
    /\ frame' = NoFrame
    /\ pc' = "rc_loop"
    /\ blocking' = FALSE
    /\ after_stop' = IF after_stop = NoStop THEN after_stop
                     ELSE [after_stop EXCEPT !.data = @ + 1]
    /\ UNCHANGED << sessionVars, quit_requested, sigVars, procVars, hdr, err,
                    capture, capture_fresh, frame_count, inbound, cursorVars,
                    hostVars, rd_total, snap, handled, werr_pending, signalled >>

\* a WriteError that leaves spice_stream_send_frame with the mutex still held
FrameWriteErrorHolds ==
    /\ Running
    /\ pc \in {"frame_hdr", "frame_body"}
    /\ capture' = 0
    /\ capture_fresh' = FALSE
    /\ frame' = NoFrame
    /\ pc' = "outer"
    /\ werr_pending' = TRUE
    /\ UNCHANGED << sessionVars, quit_requested, sigVars, procVars, blocking, hdr,
                    err, frame_count, mutex, inbound, wire, cursorVars, hostVars,
                    rd_total, snap, handled, signalled, after_stop >>

\* a write in spice_stream_send_frame throws WriteError:
\* catch (const WriteError& e) { syslog(e); break; } ends the streaming loop
\* and with it the outer iteration
FrameWriteError ==
    /\ Running
    /\ pc \in {"frame_hdr", "frame_body"}
    /\ mutex' = "free"
    /\ capture' = 0
    /\ capture_fresh' = FALSE
    /\ frame' = NoFrame
    /\ pc' = "outer"
    /\ werr_pending' = TRUE
    /\ UNCHANGED << sessionVars, quit_requested, sigVars, procVars, blocking, hdr,
                    err, frame_count, inbound, wire, cursorVars, hostVars,
                    rd_total, snap, handled, signalled, after_stop >>

(***************************************************************************)
(* read_command and have_something_to_read.                                *)
(***************************************************************************)
\* while (!quit_requested)
ReadCommandLoop ==
    /\ Running
    /\ pc = "rc_loop"
    /\ pc' = IF quit_requested THEN RcReturn ELSE "poll"
    /\ blocking' = IF quit_requested THEN FALSE ELSE blocking
    /\ UNCHANGED << sessionVars, quit_requested, sigVars, procVars, hdr,
                    err, captureVars, mutex, inbound, wire, cursorVars, hostVars,
                    obsVars >>

\* have_something_to_read called with the StreamPort mutex taken first
PollUnderLock ==
    /\ Running
    /\ pc = "poll"
    /\ mutex = "free"
    /\ mutex' = "main"
    /\ pc' = IF inbound # << >> THEN "rcd_lock"
             ELSE IF blocking THEN "poll_wait" ELSE RcReturn
    /\ UNCHANGED << sessionVars, quit_requested, sigVars, procVars, blocking, hdr,
                    err, captureVars, inbound, wire, cursorVars, hostVars,
                    obsVars >>

\* have_something_to_read that reports nothing to a non-blocking call even
\* when bytes wait at the device
PollSkips ==
    /\ Running
    /\ pc = "poll"
    /\ pc' = IF ~blocking THEN RcReturn
             ELSE IF inbound # << >> THEN "rcd_lock" ELSE "poll_wait"
    /\ UNCHANGED << sessionVars, quit_requested, sigVars, procVars, blocking, hdr,
                    err, captureVars, mutex, inbound, wire, cursorVars, hostVars,
                    obsVars >>

\* poll(&pollfd, 1, blocking ? -1 : 0) is entered: POLLIN at once, or not
\* ready (non-blocking: break), or the task blocks
Poll ==
    /\ Running
    /\ pc = "poll"
    /\ pc' = IF inbound # << >> THEN "rcd_lock"
             ELSE IF blocking THEN "poll_wait" ELSE RcReturn
    /\ UNCHANGED << sessionVars, quit_requested, sigVars, procVars, blocking, hdr,
                    err, captureVars, mutex, inbound, wire, cursorVars, hostVars,
                    obsVars >>

\* the blocked poll returns POLLIN when bytes arrive
PollWake ==
    /\ Running
    /\ pc = "poll_wait"
    /\ inbound # << >>
    /\ pc' = "rcd_lock"
    /\ UNCHANGED << sessionVars, quit_requested, sigVars, procVars, blocking, hdr,
                    err, captureVars, mutex, inbound, wire, cursorVars, hostVars,
                    obsVars >>

\* poll fails with an errno other than EINTR: throw IOError
PollError ==
    /\ Running
    /\ pc \in {"poll", "poll_wait"}
    /\ Throw("IOError")
    /\ UNCHANGED << statics, outsideVars >>

\* sleep(1) after a blocking poll that reported nothing to read
Sleep ==
    /\ Running
    /\ pc = "sleep"
    /\ pc' = "rc_loop"
    /\ UNCHANGED << sessionVars, quit_requested, sigVars, procVars, blocking, hdr,
                    err, captureVars, mutex, inbound, wire, cursorVars, hostVars,
                    obsVars >>

(***************************************************************************)
(* read_command_from_device and the three handlers.                        *)
(***************************************************************************)
\* a handler returned: the lock_guard releases the mutex, read_command
\* breaks out of its loop and returns to its caller
Handled ==
    /\ handled' = handled + 1
    /\ werr_pending' = FALSE
    /\ after_stop' = IF after_stop = NoStop
                        \/ (hdr.type = STREAM_TYPE_START_STOP
                              /\ ~streaming_requested')
                     THEN NoStop
                     ELSE [after_stop EXCEPT !.msgs = @ + 1]
    /\ hdr' = NoHdr
    /\ mutex' = "free"
    /\ pc' = RcReturn
    /\ blocking' = FALSE

\* std::lock_guard<std::mutex> guard(stream_port.mutex)
ReadLock ==
    /\ Running
    /\ pc = "rcd_lock"
    /\ mutex = "free"
    /\ mutex' = "main"
    /\ pc' = "read_hdr"
    /\ snap' = [rd |-> rd_total, streaming |-> streaming_requested,
                codecs |-> client_codecs, sent |-> Len(MainChunks(wire))]
    /\ UNCHANGED << sessionVars, quit_requested, sigVars, procVars, blocking, hdr,
                    err, captureVars, inbound, wire, cursorVars, hostVars,
                    rd_total, handled, werr_pending, signalled, after_stop >>

\* stream_port.read(&hdr, sizeof(hdr))
ReadHeader ==
    /\ Running
    /\ pc = "read_hdr"
    /\ CanRead(HdrSize)
    /\ hdr' = DecodeHeader(SubSeq(inbound, 1, HdrSize))
    /\ inbound' = Rest(HdrSize)
    /\ rd_total' = rd_total + HdrSize
    /\ pc' = "dispatch"
    /\ UNCHANGED << sessionVars, quit_requested, sigVars, procVars, blocking, err,
                    captureVars, mutex, wire, cursorVars, hostVars, snap, handled,
                    werr_pending, signalled, after_stop >>

\* read_command_from_device without its protocol_version check
DispatchedNoVersion(h) ==
    CASE h.type = STREAM_TYPE_CAPABILITIES ->
           IF h.size > STREAM_MSG_CAPABILITIES_MAX_BYTES
           THEN [err |-> "capability message too long", pc |-> "catch"]
           ELSE [err |-> "", pc |-> "caps_read"]
      [] h.type = STREAM_TYPE_NOTIFY_ERROR ->
           IF h.size < NotifyErrorPrefix
           THEN [err |-> "NotifyError too small", pc |-> "catch"]
           ELSE [err |-> "", pc |-> "error_read"]
      [] h.type = STREAM_TYPE_START_STOP ->
           IF h.size >= StartStopBufSize
           THEN [err |-> "msg size is too long", pc |-> "catch"]
           ELSE [err |-> "", pc |-> "start_stop_read"]
      [] OTHER -> [err |-> "UNKNOWN msg", pc |-> "catch"]

\* read_command_from_device and the handlers with handle_stream_start_stop
\* reading a body of any length
DispatchedNoLimit(h) ==
    IF h.protocol_version # STREAM_DEVICE_PROTOCOL
    THEN [err |-> "BAD VERSION", pc |-> "catch"]
    ELSE CASE h.type = STREAM_TYPE_CAPABILITIES ->
                IF h.size > STREAM_MSG_CAPABILITIES_MAX_BYTES
                THEN [err |-> "capability message too long", pc |-> "catch"]
                ELSE [err |-> "", pc |-> "caps_read"]
           [] h.type = STREAM_TYPE_NOTIFY_ERROR ->
                IF h.size < NotifyErrorPrefix
                THEN [err |-> "NotifyError too small", pc |-> "catch"]
                ELSE [err |-> "", pc |-> "error_read"]
           [] h.type = STREAM_TYPE_START_STOP ->
                [err |-> "", pc |-> "start_stop_read"]
           [] OTHER -> [err |-> "UNKNOWN msg", pc |-> "catch"]

\* the version check, the switch on hdr.type and each handler's check of len
\* before it reads the body: the error raised, or "" and the next position
Dispatched(h) ==
    IF h.protocol_version # STREAM_DEVICE_PROTOCOL
    THEN [err |-> "BAD VERSION", pc |-> "catch"]
    ELSE CASE h.type = STREAM_TYPE_CAPABILITIES ->
                IF h.size > STREAM_MSG_CAPABILITIES_MAX_BYTES
                THEN [err |-> "capability message too long", pc |-> "catch"]
                ELSE [err |-> "", pc |-> "caps_read"]
           [] h.type = STREAM_TYPE_NOTIFY_ERROR ->
                IF h.size < NotifyErrorPrefix
                THEN [err |-> "NotifyError too small", pc |-> "catch"]
                ELSE [err |-> "", pc |-> "error_read"]
           [] h.type = STREAM_TYPE_START_STOP ->
                IF h.size >= StartStopBufSize
                THEN [err |-> "msg size is too long", pc |-> "catch"]
                ELSE [err |-> "", pc |-> "start_stop_read"]
           [] OTHER -> [err |-> "UNKNOWN msg", pc |-> "catch"]

Dispatch ==
    /\ Running
    /\ pc = "dispatch"
    /\ LET d == Dispatched(hdr)
       IN IF d.err # ""
          THEN Throw(d.err)
          ELSE pc' = d.pc /\ UNCHANGED << procVars, err, internalVars >>
    /\ UNCHANGED << statics, outsideVars >>

\* a read error that sets quit_requested and returns instead of throwing
ReadErrorQuits ==
    /\ Running
    /\ pc \in {"read_hdr", "caps_read", "error_read", "start_stop_read"}
    /\ quit_requested' = TRUE
    /\ hdr' = NoHdr
    /\ mutex' = "free"
    /\ pc' = RcReturn
    /\ blocking' = FALSE
    /\ UNCHANGED << sessionVars, sigVars, procVars, err, captureVars, inbound,
                    wire, cursorVars, hostVars, obsVars >>

\* stream_port.read throws ReadError (the device failed or was closed)
ReadError ==
    /\ Running
    /\ pc \in {"read_hdr", "caps_read", "error_read", "start_stop_read"}
    /\ Throw("ReadError")
    /\ UNCHANGED << statics, outsideVars >>

\* values a byte of the uninitialised msg[256] may hold
UninitBytes == {0, 1, 255}

\* handle_stream_start_stop without client_codecs.clear()
start_stopKeep(len, first, msg) ==
    [ streaming |-> (first # 0),
      bad |-> first > len - 1,
      codecs |-> IF first > len - 1 THEN client_codecs
                 ELSE client_codecs \cup { msg[i + 1] : i \in 1..first } ]

\* handle_stream_start_stop after the read of msg (len bytes; msg[0] is
\* `first`): the new session state and whether num_codecs > max_codecs
start_stop(len, first, msg) ==
    [ streaming |-> (first # 0),
      bad |-> first > len - 1,
      codecs |-> IF first > len - 1 THEN {}
                 ELSE { msg[i + 1] : i \in 1..first } ]

\* handle_stream_start_stop reading only num_codecs and the codecs it lists
HandleStartStopShort ==
    /\ Running
    /\ pc = "start_stop_read"
    /\ CanRead(hdr.size)
    /\ \E u \in UninitBytes :
         LET msg == SubSeq(inbound, 1, hdr.size)
             first == IF hdr.size = 0 THEN u ELSE msg[1]
             r == start_stop(hdr.size, first, msg)
             n == Min(hdr.size, first + 1)
         IN /\ inbound' = Rest(n)
            /\ rd_total' = rd_total + n
            /\ streaming_requested' = r.streaming
            /\ client_codecs' = r.codecs
            /\ IF r.bad
               THEN /\ Throw("num_codecs > max_codecs")
                    /\ UNCHANGED handled
               ELSE /\ Handled
                    /\ UNCHANGED << procVars, err, handlers, sigaction_failed,
                                    frame, capture, capture_fresh, frame_count,
                                    cpc, cursor_count, snap >>
    /\ UNCHANGED << quit_requested, wire, hostVars, signalled >>

\* handle_stream_start_stop: stream_port.read(msg, len) and what follows it
HandleStartStop ==
    /\ Running
    /\ pc = "start_stop_read"
    /\ CanRead(hdr.size)
    /\ inbound' = Rest(hdr.size)
    /\ rd_total' = rd_total + hdr.size
    /\ \E u \in UninitBytes :
         LET msg == SubSeq(inbound, 1, hdr.size)
             first == IF hdr.size = 0 THEN u ELSE msg[1]
             r == start_stop(hdr.size, first, msg)
         IN /\ streaming_requested' = r.streaming
            /\ client_codecs' = r.codecs
            /\ IF r.bad
               THEN /\ Throw("num_codecs > max_codecs")
                    /\ UNCHANGED handled
               ELSE /\ Handled
                    /\ UNCHANGED << procVars, err, handlers, sigaction_failed,
                                    frame, capture, capture_fresh, frame_count,
                                    cpc, cursor_count, snap >>
    /\ UNCHANGED << quit_requested, wire, hostVars, signalled >>

\* handle_stream_capabilities: stream_port.read(caps, len)
HandleCapabilities ==
    /\ Running
    /\ pc = "caps_read"
    /\ CanRead(hdr.size)
    /\ inbound' = Rest(hdr.size)
    /\ rd_total' = rd_total + hdr.size
    /\ pc' = "caps_write"
    /\ UNCHANGED << sessionVars, quit_requested, sigVars, procVars, blocking, hdr,
                    err, captureVars, mutex, wire, cursorVars, hostVars, snap,
                    handled, werr_pending, signalled, after_stop >>

\* a reply header that echoes the size of the request
CapabilitiesReplyEcho ==
    EncodeHeader(STREAM_DEVICE_PROTOCOL, STREAM_TYPE_CAPABILITIES, hdr.size)

\* the reply header handle_stream_capabilities builds
CapabilitiesReply ==
    EncodeHeader(STREAM_DEVICE_PROTOCOL, STREAM_TYPE_CAPABILITIES, 0)

\* handle_stream_capabilities: stream_port.write(&hdr, sizeof(hdr))
ReplyCapabilities ==
    /\ Running
    /\ pc = "caps_write"
    /\ wire' = Append(wire, Chunk("main", "capabilities", handled + 1,
                              "message", CapabilitiesReply))
    /\ Handled
    /\ UNCHANGED << sessionVars, quit_requested, sigVars, procVars, err,
                    captureVars, inbound, cursorVars, hostVars, rd_total, snap,
                    signalled >>

\* the write of the reply throws WriteError: read_command is called outside
\* do_capture's try block
ReplyWriteError ==
    /\ Running
    /\ pc = "caps_write"
    /\ Throw("WriteError")
    /\ UNCHANGED << statics, outsideVars >>

\* len_to_read = std::min(len, sizeof(msg) - 1)
LenToRead(len) == Min(len, NotifyError1KSize - 1)

\* handle_stream_error: read, log, then throw when the message was cut
HandleError ==
    /\ Running
    /\ pc = "error_read"
    /\ CanRead(LenToRead(hdr.size))
    /\ inbound' = Rest(LenToRead(hdr.size))
    /\ rd_total' = rd_total + LenToRead(hdr.size)
    /\ IF LenToRead(hdr.size) < hdr.size
       THEN /\ Throw("NotifyError too big")
            /\ UNCHANGED handled
       ELSE /\ Handled
            /\ UNCHANGED << procVars, err, handlers, sigaction_failed, frame,
                            capture, capture_fresh, frame_count, cpc,
                            cursor_count, snap >>
    /\ UNCHANGED << statics, wire, hostVars, signalled >>

(***************************************************************************)
(* The cursor updater task: on a cursor change it assembles a cursor       *)
(* message and writes header and body under the StreamPort mutex; it       *)
(* leaves its loop when it sees quit_requested.                            *)
(***************************************************************************)
CursorBody == << 0, 0 >>

\* a cursor change is seen in the loop, which ends once quit_requested is set
CursorEvent ==
    /\ Running
    /\ cpc = "wait"
    /\ ~quit_requested
    /\ Events < limits.events
    /\ cursor_count' = cursor_count + 1
    /\ cpc' = "lock"
    /\ UNCHANGED << sessionVars, quit_requested, sigVars, procVars, pc, blocking,
                    hdr, err, captureVars, mutex, inbound, wire, hostVars,
                    obsVars >>


CursorLock ==
    /\ Running
    /\ cpc = "lock"
    /\ mutex = "free"
    /\ mutex' = "cursor"
    /\ cpc' = "header"
    /\ UNCHANGED << sessionVars, quit_requested, sigVars, procVars, pc, blocking,
                    hdr, err, captureVars, inbound, wire, cursor_count, hostVars,
                    obsVars >>

CursorWriteHeader ==
    /\ Running
    /\ cpc = "header"
    /\ wire' = Append(wire, Chunk("cursor", "cursor", cursor_count, "header",
                 EncodeHeader(STREAM_DEVICE_PROTOCOL, STREAM_TYPE_CURSOR_SET,
                              Len(CursorBody))))
    /\ cpc' = "body"
    /\ UNCHANGED << sessionVars, quit_requested, sigVars, procVars, pc, blocking,
                    hdr, err, captureVars, mutex, inbound, cursor_count, hostVars,
                    obsVars >>

CursorWriteBody ==
    /\ Running
    /\ cpc = "body"
    /\ wire' = Append(wire, Chunk("cursor", "cursor", cursor_count, "body",
                              CursorBody))
    /\ mutex' = "free"
    /\ cpc' = "wait"
    /\ UNCHANGED << sessionVars, quit_requested, sigVars, procVars, pc, blocking,
                    hdr, err, captureVars, inbound, cursor_count, hostVars,
                    obsVars >>

(***************************************************************************)
(* Specifications.                                                         *)
(***************************************************************************)
\* the steps the main task takes when nothing fails
MainStep ==
    \/ RegisterInterrupts \/ Startup
    \/ CaptureLoop \/ IdleLoop \/ IdleDone \/ GetCapture \/ StreamLoop
    \/ CaptureFrame
    \/ FormatLock \/ FormatWrite \/ FrameLock \/ FrameWriteHeader
    \/ FrameWriteBody
    \/ ReadCommandLoop \/ Poll \/ PollWake \/ Sleep
    \/ ReadLock \/ ReadHeader \/ Dispatch
    \/ HandleStartStop \/ HandleCapabilities \/ ReplyCapabilities
    \/ HandleError

\* failures of the device and of the capture provider
Failure ==
    \/ CaptureError \/ FormatWriteError \/ FrameWriteError \/ PollError
    \/ ReadError \/ ReplyWriteError

CursorStep ==
    \/ CursorEvent \/ CursorLock \/ CursorWriteHeader \/ CursorWriteBody

Environment == HostSend \/ HostFlush \/ Signal

Next == MainStep \/ Failure \/ CursorStep \/ Environment

Spec == Init /\ [][Next]_vars

\* The main task with the host and the signals alone: no cursor changes,
\* which leaves the bounds to control messages and frames.
DrainNext == MainStep \/ Failure \/ Environment

DrainSpec == DrainInit /\ [][DrainNext]_vars

\* Both tasks are threads of a running process and are scheduled; nothing
\* obliges the host to send, a signal to arrive or a failure to happen.
FairSpec ==
    Spec /\ WF_vars(MainStep) /\ WF_vars(CursorStep) /\ WF_vars(HostFlush)

(***************************************************************************)
(* Properties.                                                             *)
(***************************************************************************)
\* chunks i and j of the wire belong to the same message
SameMessage(i, j) ==
    /\ wire[i].by = wire[j].by
    /\ wire[i].kind = wire[j].kind
    /\ wire[i].n = wire[j].n

\* C1: every outbound message is contiguous on the wire under every
\* interleaving of the main task and the cursor task: the body written by a
\* second write comes directly after the header of the same message, with the
\* length that header announces, and a message written by one write is a header
\* followed by exactly the body it announces.
C1_MessagesContiguous ==
    \A i \in 1..Len(wire) :
      /\ wire[i].part = "body" =>
           /\ i > 1
           /\ wire[i - 1].part = "header"
           /\ SameMessage(i - 1, i)
           /\ Len(wire[i - 1].bytes) = HdrSize
           /\ DecodeHeader(wire[i - 1].bytes).size = Len(wire[i].bytes)
      /\ wire[i].part = "message" =>
           /\ Len(wire[i].bytes) >= HdrSize
           /\ DecodeHeader(SubSeq(wire[i].bytes, 1, HdrSize)).size
                = Len(wire[i].bytes) - HdrSize

\* C1 witness: the main task has written the header of a Data message and not
\* yet its body while the cursor task is waiting to write
C1_Contention ==
    /\ pc = "frame_body"
    /\ cpc = "lock"
    /\ wire # << >>
    /\ wire[Len(wire)].kind = "data"
    /\ wire[Len(wire)].part = "header"

\* chunk i of the wire is the Format message of frame n
IsFormat(i, n) == wire[i].kind = "format" /\ wire[i].n = n

\* chunk i of the wire is the header of the Data message of frame n
IsDataHeader(i, n) ==
    wire[i].kind = "data" /\ wire[i].n = n /\ wire[i].part = "header"

\* C2 as stated: the Format message of a stream_start frame and that frame's
\* Data message are adjacent on the wire, no other message (a cursor message
\* in particular) between them.
C2_FormatDataAdjacent ==
    \A i, j \in 1..Len(wire) :
      (i < j /\ IsFormat(i, wire[i].n) /\ IsDataHeader(j, wire[i].n))
        => j = i + 1

\* C2: a stream_start frame's Format message is the main task's last message
\* when the frame's Data message is sent, and between the two on the wire
\* there are only messages of the cursor task; a frame that does not start a
\* stream has no Format message.
C2_FormatBeforeData ==
    /\ (Running /\ pc \in {"frame_lock", "frame_hdr"}) =>
         LET m == MainChunks(wire)
             announced == /\ m # << >>
                          /\ m[Len(m)].kind = "format"
                          /\ m[Len(m)].n = frame.n
         IN frame.stream_start <=> announced
    /\ \A i, j \in 1..Len(wire) :
         (i < j /\ IsFormat(i, wire[i].n) /\ IsDataHeader(j, wire[i].n))
           => \A k \in (i + 1)..(j - 1) : wire[k].by = "cursor"

\* C2 witness: a cursor message lies between a frame's Format message and
\* the header of its Data message
C2_CursorBetween ==
    \E i, j \in 1..Len(wire) :
      /\ i + 1 < j
      /\ IsFormat(i, wire[i].n)
      /\ IsDataHeader(j, wire[i].n)
      /\ \A k \in (i + 1)..(j - 1) : wire[k].by = "cursor"

\* the capture provider has not returned from CaptureFrame (the model delivers
\* no more frames)
CaptureBlocked == pc = "capture_frame" /\ Events >= limits.events

\* C3 as stated: once a termination signal has set quit_requested, do_capture
\* eventually returns (or the process has ended), provided CaptureFrame and
\* the writes return, without a further inbound message.
C3_QuitReturns == quit_requested ~> (proc # "running" \/ CaptureBlocked)

\* C4 as stated: after register_interrupts, every sigaction call it made
\* having succeeded, a handler is installed for both SIGINT and SIGTERM.
C4_BothHandlers ==
    (Running /\ pc # "start" /\ ~sigaction_failed) => handlers = Signals

\* the main task's messages written since the control reader took the mutex,
\* as of the next state
NewMainChunks ==
    SubSeq(MainChunks(wire'), snap.sent + 1, Len(MainChunks(wire')))

\* C5: when the control reader has handled an inbound message, a Capabilities
\* message (whose body is within the cap) has produced exactly one outbound
\* message, the Capabilities header with size 0 and no body, written before
\* anything after the request is read; a message of any other type has
\* produced no outbound message.
C5_CapabilitiesReply ==
    [][ handled' = handled + 1 =>
          IF hdr.type = STREAM_TYPE_CAPABILITIES
          THEN /\ hdr.size <= STREAM_MSG_CAPABILITIES_MAX_BYTES
               /\ Len(NewMainChunks) = 1
               /\ NewMainChunks[1].part = "message"
               /\ NewMainChunks[1].bytes = << 1, 0, 1, 0, 0, 0, 0, 0 >>
               /\ rd_total' = snap.rd + HdrSize + hdr.size
          ELSE NewMainChunks = << >> ]_vars

\* C5 witness: a Capabilities request has been answered and handled
C5_Replied ==
    /\ Running
    /\ handled > 0
    /\ \E i \in 1..Len(wire) : wire[i].kind = "capabilities"

\* C6: when a StartStop message with num_codecs n has been processed,
\* client_codecs is the set of the n codec ids it lists (the previous set is
\* gone, duplicates count once) and streaming_requested is n > 0.
C6_StartStopApplied ==
    [][ (pc = "start_stop_read" /\ handled' = handled + 1) =>
          LET n == inbound[1]
          IN /\ client_codecs' = { inbound[k + 1] : k \in 1..n }
             /\ streaming_requested' = (n > 0) ]_vars

\* C6 witness: the StartStop message listing 1, 3, 1 has been processed
C6_Started ==
    /\ Running
    /\ handled > 0
    /\ streaming_requested
    /\ client_codecs = {1, 3}

\* the main task takes a step that is not the process being killed
MainMoves == pc' # pc /\ proc' # "killed"

\* C7: a header whose protocol_version is wrong raises an error when exactly
\* the 8 header bytes have been consumed: no body byte is read,
\* streaming_requested and client_codecs are as before the message, and
\* nothing is written.
C7_BadVersion ==
    [][ ( /\ pc = "dispatch"
          /\ hdr.protocol_version # STREAM_DEVICE_PROTOCOL
          /\ MainMoves ) =>
          /\ proc' = "exited"
          /\ err' # "none"
          /\ rd_total' = snap.rd + HdrSize
          /\ inbound' = inbound
          /\ streaming_requested' = snap.streaming
          /\ client_codecs' = snap.codecs
          /\ wire' = wire
          /\ NewMainChunks = << >> ]_vars

\* C7 witness: the process has ended on a bad version with the body of that
\* message unread
C7_Rejected ==
    /\ proc = "exited"
    /\ err = "BAD VERSION"
    /\ inbound = BadVersionMsg.body

\* C8 as stated: after a write error on a Data message, no frame is captured
\* until a further control message has been processed.
C8_WaitsForControl == werr_pending => frame = NoFrame



\* the message the control reader has in hand breaks the protocol: a wrong
\* version, an unknown type, a Capabilities body above its cap, a NotifyError
\* body below its minimum or above its cap, a StartStop without num_codecs or
\* listing fewer codecs than num_codecs
ProtocolError ==
    \/ /\ pc = "dispatch"
       /\ \/ hdr.protocol_version # STREAM_DEVICE_PROTOCOL
          \/ hdr.type \notin {STREAM_TYPE_CAPABILITIES, STREAM_TYPE_START_STOP,
                              STREAM_TYPE_NOTIFY_ERROR}
          \/ /\ hdr.type = STREAM_TYPE_CAPABILITIES
             /\ hdr.size > STREAM_MSG_CAPABILITIES_MAX_BYTES
          \/ /\ hdr.type = STREAM_TYPE_NOTIFY_ERROR
             /\ hdr.size < NotifyErrorPrefix
    \/ /\ pc = "start_stop_read"
       /\ \/ hdr.size = 0
          \/ inbound # << >> /\ inbound[1] > hdr.size - 1
    \/ /\ pc = "error_read"
       /\ hdr.size > NotifyErrorPrefix + STREAM_MSG_CAPABILITIES_MAX_BYTES

\* C9: every protocol error on the control path is fatal: the step that
\* detects it ends the process with a non-zero exit status, and after that
\* no inbound byte is read and nothing is written.
C9_ProtocolErrorFatal ==
    /\ [][ (ProtocolError /\ MainMoves) =>
             /\ proc' = "exited"
             /\ pc' = "catch"
             /\ exit_code' # EXIT_SUCCESS
             /\ wire' = wire ]_vars
    /\ [][ proc = "exited" => UNCHANGED << inbound, rd_total, wire >> ]_vars

\* C9 witness: the process has ended on an over-long NotifyError with the
\* bytes that follow it unread
C9_Fatal ==
    /\ proc = "exited"
    /\ exit_code = EXIT_FAILURE
    /\ err = "NotifyError too big"
    /\ Len(inbound) >= Len(Trail)

\* C10: the exit status is 0 exactly when do_capture returned because a
\* signal set quit_requested, and non-zero exactly when an error escaped the
\* capture loop or startup; a signal alone never gives a non-zero status.
C10_ExitStatus ==
    proc = "exited" =>
      /\ exit_code = EXIT_SUCCESS <=>
           (pc = "return" /\ quit_requested /\ signalled /\ err = "none")
      /\ exit_code # EXIT_SUCCESS <=> (pc = "catch" /\ err # "none")

\* C10 witness: the process has exited with status 0 after a signal
C10_CleanExit ==
    /\ proc = "exited"
    /\ exit_code = EXIT_SUCCESS
    /\ quit_requested

\* C11 as stated: a NotifyError whose body length L is between the 4-byte
\* prefix and prefix + 1024 is accepted, exactly L bytes being consumed and no
\* error raised; one with L below the prefix or above prefix + 1024 raises an
\* error.
C11_NotifyErrorBounds ==
    /\ [][ ( /\ pc = "dispatch"
             /\ hdr.protocol_version = STREAM_DEVICE_PROTOCOL
             /\ hdr.type = STREAM_TYPE_NOTIFY_ERROR
             /\ MainMoves ) =>
             IF hdr.size < NotifyErrorPrefix
             THEN proc' = "exited"
             ELSE pc' = "error_read" ]_vars
    /\ [][ (pc = "error_read" /\ MainMoves /\ err' # "ReadError") =>
             IF hdr.size <= NotifyErrorPrefix + 1024
             THEN /\ proc' = "running"
                  /\ handled' = handled + 1
                  /\ rd_total' = rd_total + hdr.size
             ELSE proc' = "exited" ]_vars

\* the control reader has the header of a StartStop message in hand
StartStopInHand ==
    /\ pc = "dispatch"
    /\ hdr.protocol_version = STREAM_DEVICE_PROTOCOL
    /\ hdr.type = STREAM_TYPE_START_STOP

\* the step handle_stream_start_stop takes once the body is read: with body
\* length L and num_codecs k the message is rejected if k > L - 1 and
\* accepted, the session state updated, if k <= L - 1 (no k fits L = 0)
NumCodecsDecides ==
    (pc = "start_stop_read" /\ MainMoves /\ err' # "ReadError") =>
      IF hdr.size = 0 \/ inbound[1] > hdr.size - 1
      THEN proc' = "exited" /\ exit_code' = EXIT_FAILURE
      ELSE /\ proc' = "running"
           /\ handled' = handled + 1
           /\ streaming_requested' = (inbound[1] > 0)

\* C12 as stated: a StartStop with body length L and num_codecs k is rejected
\* if k > L - 1 and accepted if k <= L - 1, and no other condition on L
\* rejects it.
C12_OnlyNumCodecs ==
    /\ [][ (StartStopInHand /\ MainMoves) => pc' = "start_stop_read" ]_vars
    /\ [][ NumCodecsDecides ]_vars

\* C12: a StartStop with body length L < 256 and num_codecs k is rejected if
\* k > L - 1 and accepted if k <= L - 1; one with L >= 256, the size of the
\* handler's buffer, is rejected whatever k is, before its body is read.
C12_StartStopAccepted ==
    /\ [][ (StartStopInHand /\ MainMoves) =>
             IF hdr.size >= StartStopBufSize
             THEN /\ proc' = "exited"
                  /\ exit_code' = EXIT_FAILURE
                  /\ inbound' = inbound
             ELSE pc' = "start_stop_read" ]_vars
    /\ [][ NumCodecsDecides ]_vars

\* C12 witness: the process has ended on a StartStop of 256 bytes, none of
\* its body read
C12_TooLong ==
    /\ proc = "exited"
    /\ err = "msg size is too long"
    /\ inbound = LongStartStopMsg.body

\* the headers of the messages the host sends
HostHeaders == { DecodeHeader(m.hdr) : m \in GoodMsgs \cup BadMsgs }

\* C13: when the control reader has accepted a message it has consumed
\* exactly 8 + size bytes since it took the mutex, whatever the type and also
\* when a StartStop body is longer than num_codecs + 1; so every header it
\* reads begins at the first byte of a message the host sent.
C13_ExactConsumption ==
    /\ [][ handled' = handled + 1 =>
             /\ rd_total' = snap.rd + HdrSize + hdr.size
             /\ Len(inbound') + rd_total' = Len(inbound) + rd_total ]_vars
    /\ []((Running /\ pc = "dispatch") => hdr \in HostHeaders)

\* C13 witness: the StartStop with a 5-byte body and num_codecs 3 has been
\* accepted, and all 13 bytes of it are consumed
C13_Consumed ==
    /\ Running
    /\ handled = 1
    /\ client_codecs = {1, 3}
    /\ rd_total = HdrSize + Len(StartMsg.body)
    /\ inbound = << >>
    /\ host_pending = << >>

\* C14 as stated: while the agent is capturing, once a StartStop with
\* num_codecs 0 waits at the device the loop sends at most one more Data
\* message before it handles that StartStop and returns to idle, however many
\* other control messages wait ahead of it.
C14_OneMoreData == after_stop.data <= 1

\* C14: while the agent is capturing, once a StartStop with num_codecs 0
\* waits at the device the loop sends at most one more Data message than it
\* has handled control messages since (it handles one message per frame), and
\* the streaming loop ends, the provider destroyed, at its next test once
\* streaming_requested is false.
C14_OneDataPerMessage ==
    /\ [](after_stop.data <= after_stop.msgs + 1)
    /\ [][ (pc = "stream" /\ ~streaming_requested /\ MainMoves) =>
             (pc' = "outer" /\ capture' = 0) ]_vars

\* C14 witness: two Data messages are out since the StartStop with
\* num_codecs 0 arrived, one message ahead of it handled in between, and it
\* still waits
C14_StopBehindCapabilities ==
    /\ Running
    /\ after_stop = [data |-> 2, msgs |-> 1]
    /\ inbound = StopMsg.hdr \o StopMsg.body
    /\ streaming_requested

\* the main task is outside the streaming loop: at the outer loop's test, in
\* the idle loop (a blocking read_command included) or about to create a
\* provider
Idle ==
    /\ Running
    /\ pc \in {"outer", "idle", "idle_done", "get_capture"} \/ blocking

\* C15: a provider is created only after the idle loop was left with
\* streaming_requested true and quit_requested false, and only when none is
\* live; none is live while the main task is idle, so the provider is gone
\* before the loop waits for control again; a frame is captured only in the
\* streaming loop, from the live provider.
C15_ProviderLifetime ==
    /\ [][ (pc' = "get_capture" /\ pc # "get_capture") =>
             (pc = "idle_done" /\ streaming_requested /\ ~quit_requested) ]_vars
    /\ [][ capture' # capture =>
             IF capture = 0
             THEN pc = "get_capture" /\ streaming_requested
             ELSE capture' = 0 ]_vars
    /\ [](Idle => capture = 0)
    /\ [][ frame_count' = frame_count + 1 =>
             (pc = "capture_frame" /\ capture # 0 /\ ~Idle) ]_vars

\* C15 witness: a second provider is live, the first one destroyed when the
\* StartStop with num_codecs 0 ended the streaming loop after one frame
C15_SecondProvider ==
    /\ Running
    /\ capture # 0
    /\ capture_fresh
    /\ frame_count = 1
    /\ handled = 3
    /\ ~snap.streaming
    /\ ~werr_pending
    /\ pc = "capture_frame"

\* the control reader is blocked in stream_port.read: the bytes it asked for
\* have not all arrived
ReaderBlocked ==
    \/ pc = "read_hdr" /\ ~CanRead(HdrSize)
    \/ pc \in {"start_stop_read", "caps_read"} /\ ~CanRead(hdr.size)
    \/ pc = "error_read" /\ ~CanRead(LenToRead(hdr.size))

\* C16 as stated: writes never block on reads; in no reachable state does
\* the cursor updater wait for the StreamPort mutex while the control reader
\* holds it and is itself blocked in a device read, waiting for the rest of
\* an inbound message.
C16_WritesNeverBlockOnReads ==
    ~(Running /\ cpc = "lock" /\ mutex = "main" /\ ReaderBlocked)

\* C17: quit_requested is false when main starts and, once true, is true in
\* every later state: no step of the main task (a control message handled, a
\* write error, a transition of the capture loop), of the cursor updater, of
\* the host or of a signal resets it.
C17_QuitMonotonic ==
    /\ ~quit_requested
    /\ [][ quit_requested => quit_requested' ]_vars

\* C17 witness: quit_requested is true while the control reader is midway
\* through a Capabilities message, in a session that had a write error
C17_QuitDuringMessage ==
    /\ Running
    /\ quit_requested
    /\ werr_pending
    /\ pc = "caps_write"

\* C18 as stated: a device write failure on the data path is never fatal;
\* whichever write of a capture message the main task is at, the Format
\* message's or one of the Data message's, its step leaves the process
\* running (the write done, or the session dropped back to idle).
C18_DataWriteNotFatal ==
    [][ (pc \in {"format_write", "frame_hdr", "frame_body"} /\ MainMoves) =>
          proc' = "running" ]_vars

\* where the main task is inside a lock_guard's scope: reading a control
\* message (the Capabilities reply included) or writing a capture message
MainInMessage ==
    pc \in {"read_hdr", "dispatch", "caps_read", "caps_write",
            "start_stop_read", "error_read", "format_write", "frame_hdr",
            "frame_body"}

\* C19: the StreamPort mutex is taken only when free, so no task asks for it
\* while holding it; the main task holds it exactly while it is inside a
\* message, the Capabilities reply being written under the hold of the
\* control reader, and the cursor updater exactly while it writes its
\* message; so every path out of a message, the error paths included, has
\* released it, and a task that waits for it waits for the other task.
C19_NoNestedLocks ==
    /\ [][ mutex' # mutex => (mutex = "free" \/ mutex' = "free") ]_vars
    /\ [](Running => (mutex = "main" <=> MainInMessage))
    /\ [](Running => (mutex = "cursor" <=> cpc \in {"header", "body"}))
    /\ [][ (pc = "caps_write" /\ MainMoves /\ proc' = "running") =>
             (mutex = "main" /\ mutex' = "free"
               /\ Len(wire') = Len(wire) + 1) ]_vars

\* C19 witness: after a Capabilities reply and then a write error on a Data
\* message the main task is out of the message and the cursor updater holds
\* the mutex
C19_ReleasedAfterError ==
    /\ Running
    /\ werr_pending
    /\ pc = "outer"
    /\ mutex = "cursor"
    /\ \E i \in 1..Len(wire) : wire[i].kind = "capabilities"

\* the main task is in read_command with no message in hand: at the loop
\* test, in poll (blocking or not) or in the sleep after a poll that was not
\* ready
WaitsForControl == Running /\ pc \in {"rc_loop", "poll", "poll_wait", "sleep"}

\* the main task is idle, waiting for control, and nothing has arrived
QuietIdle == WaitsForControl /\ blocking /\ inbound = << >>

\* C20: while the main task waits for control with nothing to read it does
\* not hold the StreamPort mutex; and a cursor updater that asks for the mutex
\* while the main task is idle with no inbound traffic gets it, unless traffic
\* arrives or the idle wait ends first.
C20_IdleLeavesMutex ==
    /\ [](WaitsForControl => mutex # "main")
    /\ (cpc = "lock" /\ QuietIdle) ~> (cpc # "lock" \/ ~QuietIdle)

\* C20 witness: the cursor updater has taken the mutex and written its
\* header while the main task is blocked in poll with nothing to read
C20_CursorWritesInIdle ==
    /\ Running
    /\ pc = "poll_wait"
    /\ blocking
    /\ inbound = << >>
    /\ host_pending = << >>
    /\ mutex = "cursor"
    /\ cpc = "body"

====
